---- MODULE Spec2Model ----
(***************************************************************************)
(* A model of export_static_site.py: the export pipeline that turns flat   *)
(* (entry, sense) rows into slugged entries, chunk files, a manifest, a    *)
(* landing page, a routing file and a sitemap.                             *)
(*                                                                         *)
(* Text is modelled as a sequence of code points, each code point a string *)
(* ("a", "!", "U+00E9", ...), so that the text functions of the program    *)
(* (normalisation, lowercasing, the slug regular expression, stripping)    *)
(* are computed character by character as the program computes them.       *)
(* File names are TLA+ strings built with \o as the program's f-strings    *)
(* build them.                                                             *)
(***************************************************************************)
EXTENDS Integers, Sequences, FiniteSets, TLC

VARIABLES
    pc,          \* position of the modelled run: which operation is next/done
    enriched,    \* write_site's `enriched`: entries with their slug
    used_slugs,  \* write_site's `used_slugs`: base slug -> occurrence count
    rows,        \* the flat rows the cursor of fetch_entries yields
    entries,     \* write_site's `entries`: the list fetch_entries returns
    manifest,    \* write_site's `manifest`
    base_url,    \* the base URL handed to write_sitemap
    sitemap_in,  \* the manifest handed to write_sitemap on its own, by size
    sitemaps,    \* what write_sitemap on its own wrote and returned, in summary
    fs,          \* the output directory: path -> content of every file in it
    dirs,        \* the directories that exist
    run,         \* the record of the last run of main()
    nruns        \* how many runs of main() have happened

vars == <<pc, enriched, used_slugs, rows, entries, manifest, base_url,
          sitemap_in, sitemaps, fs, dirs, run, nruns>>

(***************************************************************************)
(* Bounds of the model.                                                    *)
(***************************************************************************)
MaxLen == 3          \* longest lemma drawn from the whole alphabet
MaxEntries == 3      \* longest lemma list of one slug run

(***************************************************************************)
(* Generic helpers.                                                        *)
(***************************************************************************)
Range(s) == {s[i] : i \in 1..Len(s)}

SeqsUpTo(S, n) == UNION {[1..k -> S] : k \in 0..n}

Injective(s) == \A i, j \in 1..Len(s) : s[i] = s[j] => i = j

Min(a, b) == IF a < b THEN a ELSE b

(***************************************************************************)
(* Characters.                                                             *)
(***************************************************************************)
LowerAscii == {"a","b","c","d","e","f","g","h","i","j","k","l","m",
               "n","o","p","q","r","s","t","u","v","w","x","y","z"}

AsciiDigits == {"0","1","2","3","4","5","6","7","8","9"}

\* U+0301 is the combining acute accent, U+00E9/U+00C9 are e/E with acute,
\* U+00E1/U+00C1 are a/A with acute, U+FF21 is the fullwidth capital A.
CombiningAcute == "U+0301"

\* str.lower() on one code point.
LowerPairs ==
    {<<"A","a">>, <<"B","b">>, <<"C","c">>, <<"D","d">>, <<"E","e">>,
     <<"F","f">>, <<"G","g">>, <<"H","h">>, <<"I","i">>, <<"J","j">>,
     <<"K","k">>, <<"L","l">>, <<"M","m">>, <<"N","n">>, <<"O","o">>,
     <<"P","p">>, <<"Q","q">>, <<"R","r">>, <<"S","s">>, <<"T","t">>,
     <<"U","u">>, <<"V","v">>, <<"W","w">>, <<"X","x">>, <<"Y","y">>,
     <<"Z","z">>, <<"U+00C9","U+00E9">>, <<"U+00C1","U+00E1">>,
     <<"U+FF21","U+FF41">>}

LowerChar(c) ==
    IF \E p \in LowerPairs : p[1] = c
    THEN (CHOOSE p \in LowerPairs : p[1] = c)[2]
    ELSE c

\* The compatibility decomposition (NFKD) of one code point.
Decomposition(c) ==
    CASE c = "U+00E9" -> <<"e", CombiningAcute>>
      [] c = "U+00C9" -> <<"E", CombiningAcute>>
      [] c = "U+00E1" -> <<"a", CombiningAcute>>
      [] c = "U+00C1" -> <<"A", CombiningAcute>>
      [] c = "U+FF21" -> <<"A">>
      [] OTHER -> <<c>>

\* The canonical composition of a starter with the combining acute accent.
Composites ==
    {<<"e","U+00E9">>, <<"E","U+00C9">>, <<"a","U+00E1">>, <<"A","U+00C1">>}

Composable(c) == \E p \in Composites : p[1] = c

Composite(c) == (CHOOSE p \in Composites : p[1] = c)[2]

RECURSIVE Decompose(_)
Decompose(text) ==
    IF text = <<>> THEN <<>>
    ELSE Decomposition(Head(text)) \o Decompose(Tail(text))

\* Canonical composition, left to right: an accent composes with the
\* character before it when that pair has a precomposed form.
RECURSIVE Compose(_, _)
Compose(done, text) ==
    IF text = <<>> THEN done
    ELSE IF /\ Head(text) = CombiningAcute
            /\ done # <<>>
            /\ Composable(done[Len(done)])
         THEN Compose(SubSeq(done, 1, Len(done) - 1)
                        \o <<Composite(done[Len(done)])>>, Tail(text))
         ELSE Compose(Append(done, Head(text)), Tail(text))

\* unicodedata.normalize("NFKC", text)
NFKC(text) == Compose(<<>>, Decompose(text))

\* str.lower()
Lower(text) == [i \in 1..Len(text) |-> LowerChar(text[i])]

\* str.strip(chars): drop the leading and trailing characters that are in S.
RECURSIVE LStrip(_, _)
LStrip(text, S) ==
    IF text # <<>> /\ Head(text) \in S THEN LStrip(Tail(text), S) ELSE text

RECURSIVE RStrip(_, _)
RStrip(text, S) ==
    IF text # <<>> /\ text[Len(text)] \in S
    THEN RStrip(SubSeq(text, 1, Len(text) - 1), S)
    ELSE text

Strip(text, S) == RStrip(LStrip(text, S), S)

Whitespace == {" "}

\* The characters SLUG_SAFE_RE does not match: [a-z0-9].
SlugSafe == LowerAscii \cup AsciiDigits

\* SLUG_SAFE_RE.sub("-", s): every maximal run of characters outside
\* [a-z0-9] becomes a single "-".
RECURSIVE SlugSafeSub(_, _)
SlugSafeSub(text, inRun) ==
    IF text = <<>> THEN <<>>
    ELSE IF Head(text) \in SlugSafe
         THEN <<Head(text)>> \o SlugSafeSub(Tail(text), FALSE)
         ELSE (IF inRun THEN <<>> ELSE <<"-">>) \o SlugSafeSub(Tail(text), TRUE)

Untitled == <<"u","n","t","i","t","l","e","d">>

\* slugify without its fallback to untitled.
slugify_no_fallback(text) ==
    Strip(SlugSafeSub(Lower(Strip(NFKC(text), Whitespace)), FALSE), {"-"})

slugify(text) ==
    IF text = <<>> THEN Untitled
    ELSE LET s == Strip(SlugSafeSub(Lower(Strip(NFKC(text), Whitespace)), FALSE),
                        {"-"})
         IN  IF s = <<>> THEN Untitled ELSE s

\* str(n) for n >= 0, as the f-string of ensure_unique_slug formats the count.
DigitOf(d) ==
    CASE d = 0 -> "0" [] d = 1 -> "1" [] d = 2 -> "2" [] d = 3 -> "3"
      [] d = 4 -> "4" [] d = 5 -> "5" [] d = 6 -> "6" [] d = 7 -> "7"
      [] d = 8 -> "8" [] d = 9 -> "9"

RECURSIVE Decimal(_)
Decimal(n) ==
    IF n < 10 THEN <<DigitOf(n)>>
    ELSE Append(Decimal(n \div 10), DigitOf(n % 10))

\* ensure_unique_slug with the counter set to 2 at every collision.
ensure_unique_slug_reset(slug, used) ==
    IF slug \notin DOMAIN used
    THEN [slug |-> slug, used |-> (slug :> 1) @@ used]
    ELSE [slug |-> slug \o <<"-">> \o Decimal(2),
          used |-> [used EXCEPT ![slug] = 2]]

\* ensure_unique_slug(slug, used): the slug returned and the updated map.
ensure_unique_slug(slug, used) ==
    IF slug \notin DOMAIN used
    THEN [slug |-> slug, used |-> (slug :> 1) @@ used]
    ELSE [slug |-> slug \o <<"-">> \o Decimal(used[slug] + 1),
          used |-> [used EXCEPT ![slug] = used[slug] + 1]]

\* The slug loop of write_site: one pass over the lemmas in order, one
\* shared counter map.  The result is the list of {lemma, slug} and the map.
\* {**entry, "slug": slug}
WithSlug(entry, slug) == [slug |-> slug] @@ entry

RECURSIVE SlugLoop(_, _, _)
SlugLoop(todo, done, used) ==
    IF todo = <<>> THEN [enriched |-> done, used_slugs |-> used]
    ELSE LET r == ensure_unique_slug(slugify(Head(todo).lemma), used)
         IN  SlugLoop(Tail(todo), Append(done, WithSlug(Head(todo), r.slug)),
                      r.used)

\* used_slugs = {} ; enriched = [] ; for entry in entries: ...
AssignSlugs(es) == SlugLoop(es, <<>>, <<>>)

(***************************************************************************)
(* fetch_entries: the aggregation of flat rows.  A row carries the lemma,  *)
(* an entry-level column (pos stands for ipa, pos, freq, morphology,       *)
(* etymology and related, which the code copies the same way) and a        *)
(* sense-level column (sense_id stands for id, attr, def and ex).  The     *)
(* dict `entries` is an insertion-ordered map: its keys in insertion       *)
(* order, and the value of each key.                                       *)
(***************************************************************************)
SenseOf(row) == [id |-> row.sense_id]

NewEntry(row) == [lemma |-> row.lemma, pos |-> row.pos, senses |-> <<>>]

\* The loop body with the entry rebuilt from every row of its lemma.
AggRow_replace(d, row) ==
    LET d1 == [keys |-> IF row.lemma \in Range(d.keys) THEN d.keys
                        ELSE Append(d.keys, row.lemma),
               val  |-> (row.lemma :> NewEntry(row)) @@ d.val]
    IN  [d1 EXCEPT !.val[row.lemma].senses = Append(@, SenseOf(row))]

\* One iteration of `for row in cur`.
AggRow(d, row) ==
    LET d1 == IF row.lemma \in Range(d.keys) THEN d
              ELSE [keys |-> Append(d.keys, row.lemma),
                    val  |-> (row.lemma :> NewEntry(row)) @@ d.val]
    IN  [d1 EXCEPT !.val[row.lemma].senses = Append(@, SenseOf(row))]

RECURSIVE AggLoop(_, _)
AggLoop(d, rs) == IF rs = <<>> THEN d ELSE AggLoop(AggRow(d, Head(rs)), Tail(rs))

\* list(entries.values())
DictValues(d) == [i \in 1..Len(d.keys) |-> d.val[d.keys[i]]]

fetch_entries(rs) == DictValues(AggLoop([keys |-> <<>>, val |-> <<>>], rs))

(***************************************************************************)
(* chunked and Python's range and slices.                                  *)
(***************************************************************************)
\* list(range(start, stop, step)) for step # 0.
RECURSIVE PyRange(_, _, _)
PyRange(start, stop, step) ==
    IF (step > 0 /\ start < stop) \/ (step < 0 /\ start > stop)
    THEN <<start>> \o PyRange(start + step, stop, step)
    ELSE <<>>

\* The index a slice bound denotes in a list of length n.
SliceBound(k, n) ==
    IF k < 0 THEN (IF k + n < 0 THEN 0 ELSE k + n) ELSE Min(k, n)

\* items[lo:hi]
Slice(items, lo, hi) ==
    SubSeq(items, SliceBound(lo, Len(items)) + 1, SliceBound(hi, Len(items)))

\* chunked with windows one item too long.
chunked_overlap(items, size) ==
    LET starts == PyRange(0, Len(items), size)
    IN  [k \in 1..Len(starts) |-> Slice(items, starts[k], starts[k] + size + 1)]

\* chunked(items, size) for size # 0 (range() raises ValueError for size 0).
chunked(items, size) ==
    LET starts == PyRange(0, Len(items), size)
    IN  [k \in 1..Len(starts) |-> Slice(items, starts[k], starts[k] + size)]

\* f"{i:04d}" for i >= 0: the decimal digits, zero-padded to width 4.
RECURSIVE ZeroPad(_, _)
ZeroPad(s, width) == IF Len(s) < width THEN ZeroPad("0" \o s, width) ELSE s

\* chunk_name = f"chunk-{i:04d}.json"
ChunkName(i) == "chunk-" \o ZeroPad(ToString(i), 4) \o ".json"

\* json.dumps(value, ensure_ascii=False): a JSON document holding value.
JsonDoc(value) == [format |-> "json", body |-> value]

(***************************************************************************)
(* Files.  A file system is a function from path to content; a write       *)
(* replaces the whole content of its path (Path.write_text).  The log is   *)
(* the sequence of I/O operations of one run, in order.                    *)
(***************************************************************************)
Ev(op, path) == [op |-> op, path |-> path]

WriteText(files, path, content) == (path :> content) @@ files

\* Apply a sequence of writes <<[path, content], ...>> in order.
RECURSIVE WriteAll(_, _)
WriteAll(files, ws) ==
    IF ws = <<>> THEN files
    ELSE WriteAll(WriteText(files, Head(ws).path, Head(ws).content), Tail(ws))

WriteLog(ws) == [i \in 1..Len(ws) |-> Ev("write", ws[i].path)]

(***************************************************************************)
(* write_sitemap.                                                          *)
(***************************************************************************)
max_urls == 50000

LemmaPrefix == <<"/","l","e","m","m","a","/">>

\* render_urlset(url_list): the urlset document listing url_list in order.
render_urlset(url_list) == [format |-> "urlset", locs |-> url_list]

\* name = f"sitemap-{i}.xml"
SitemapName(i) == "sitemap-" \o ToString(i) \o ".xml"

\* [f"{base}/"] + [f"{base}/lemma/{m['slug']}" for m in manifest]
UrlsFrom(mf, base) ==
    <<base \o <<"/">>>> \o [i \in 1..Len(mf) |-> base \o LemmaPrefix \o mf[i].slug]

\* base = base_url.rstrip("/") ; urls = [f"{base}/"] + [...]
SitemapUrls(mf, url) == UrlsFrom(mf, RStrip(url, {"/"}))

\* chunks = [urls[i:i + max_urls] for i in range(0, len(urls), max_urls)]
UrlChunksAt(urls, starts) ==
    [k \in 1..Len(starts) |-> Slice(urls, starts[k], starts[k] + max_urls)]

UrlChunks(urls) == UrlChunksAt(urls, PyRange(0, Len(urls), max_urls))

\* The branch for more than max_urls URLs: one file per chunk, named from 1
\* in order, then the index that lists them.
SplitSitemaps(base, chunks) ==
    [writes |-> [k \in 1..Len(chunks) |->
                   [path |-> SitemapName(k), content |-> render_urlset(chunks[k])]]
                \o <<[path |-> "sitemap.xml",
                      content |-> [format |-> "sitemapindex",
                                   locs |-> [k \in 1..Len(chunks) |->
                                               base \o <<"/">> \o <<SitemapName(k)>>]]]>>,
     count  |-> Len(chunks)]

\* The split decision with < in place of <=.
SitemapsOf_strict(base, urls) ==
    IF Len(urls) < max_urls
    THEN [writes |-> <<[path |-> "sitemap.xml", content |-> render_urlset(urls)]>>,
          count  |-> 1]
    ELSE SplitSitemaps(base, UrlChunks(urls))

SitemapsOf(base, urls) ==
    IF Len(urls) <= max_urls
    THEN [writes |-> <<[path |-> "sitemap.xml", content |-> render_urlset(urls)]>>,
          count  |-> 1]
    ELSE SplitSitemaps(base, UrlChunks(urls))

\* write_sitemap: the writes it makes, in order, and the count it returns.
write_sitemap(mf, url) == SitemapsOf(RStrip(url, {"/"}), SitemapUrls(mf, url))

(***************************************************************************)
(* The template.  Its text is a sequence of fragments; Marker is the       *)
(* supabase script tag inject_index looks for.                             *)
(***************************************************************************)
Marker == "<script src=supabase-js@2></script>"

IndexBootstrap == "<script>window.__STATIC_INDEX__ = true;...</script>"

\* template.replace(marker, inject + marker, 1)
RECURSIVE ReplaceFirst(_, _, _)
ReplaceFirst(text, old, new) ==
    IF text = <<>> THEN <<>>
    ELSE IF Head(text) = old THEN new \o Tail(text)
    ELSE <<Head(text)>> \o ReplaceFirst(Tail(text), old, new)

\* inject_index without the check for the marker.
inject_index_lenient(template) ==
    [raised |-> FALSE,
     html |-> ReplaceFirst(template, Marker, <<IndexBootstrap, Marker>>)]

\* inject_index(template): raises ValueError when the marker is missing.
inject_index(template) ==
    IF Marker \notin Range(template)
    THEN [raised |-> TRUE, html |-> <<>>]
    ELSE [raised |-> FALSE,
          html |-> ReplaceFirst(template, Marker, <<IndexBootstrap, Marker>>)]

Redirects == <<"/index.html /index.html 200", "/lemma/* /index.html 200",
               "/* /index.html 200">>

(***************************************************************************)
(* write_site and main.                                                    *)
(***************************************************************************)
OutDir == "site"

DataDir == "site/data"

TemplatePath == "lexdb_sql1.html"

\* The manifest records of one chunk: one per item, in order.
ManifestOf(chunk, chunk_name) ==
    [j \in 1..Len(chunk) |->
       [lemma |-> chunk[j].lemma, slug |-> chunk[j].slug, chunk |-> chunk_name]]

\* for i, chunk in enumerate(chunks): the manifest records appended.
RECURSIVE ChunkManifest(_, _)
ChunkManifest(chunks, k) ==
    IF k > Len(chunks) THEN <<>>
    ELSE ManifestOf(chunks[k], ChunkName(k - 1)) \o ChunkManifest(chunks, k + 1)

\* for i, chunk in enumerate(chunks): the chunk files written, in order.
ChunkWrites(chunks) ==
    [k \in 1..Len(chunks) |->
       [path |-> "data/" \o ChunkName(k - 1), content |-> JsonDoc(chunks[k])]]

\* The state a run ends in.  outcome is "ok" or the error that ended it.
RunEnd(outcome, files, ds, log, es, en, used, mf, result) ==
    [outcome |-> outcome, fs |-> files, dirs |-> ds, log |-> log, entries |-> es,
     enriched |-> en, used_slugs |-> used, manifest |-> mf, result |-> result]

\* write_site(out_dir, chunk_size, base_url) from the file system files0
\* and directories ds0, after the I/O log0.  inp holds what the run meets:
\* the template file (readable or not, and its text), the data source
\* (reachable or not, and its rows), the chunk size and the base URL.
write_site(files0, ds0, log0, inp) ==
    IF ~inp.template_readable
    THEN RunEnd("template_unreadable", files0, ds0,
                Append(log0, Ev("read_failed", TemplatePath)),
                <<>>, <<>>, <<>>, <<>>, <<>>)
    ELSE
    LET log1 == Append(log0, Ev("read", TemplatePath)) IN
    IF ~inp.db_ok
    THEN RunEnd("source_unavailable", files0, ds0,
                Append(log1, Ev("connect_failed", "db")),
                <<>>, <<>>, <<>>, <<>>, <<>>)
    ELSE
    LET es   == fetch_entries(inp.rows)
        log2 == Append(Append(log1, Ev("query", "db")), Ev("mkdir", DataDir))
        ds1  == ds0 \cup {DataDir}
        sl   == AssignSlugs(es)
    IN
    IF inp.chunk_size = 0
    THEN RunEnd("range_zero_step", files0, ds1, log2,
                es, sl.enriched, sl.used_slugs, <<>>, <<>>)
    ELSE
    LET chunks == chunked(sl.enriched, inp.chunk_size)
        mf     == ChunkManifest(chunks, 1)
        w1     == Append(ChunkWrites(chunks),
                         [path |-> "manifest.json", content |-> JsonDoc(mf)])
        files1 == WriteAll(files0, w1)
        log3   == log2 \o WriteLog(w1)
        idx    == inject_index(inp.template)
    IN
    IF idx.raised
    THEN RunEnd("template_format", files1, ds1, log3,
                es, sl.enriched, sl.used_slugs, mf, <<>>)
    ELSE
    LET sm == write_sitemap(mf, inp.base_url)
        w2 == <<[path |-> "index.html", content |-> idx.html],
                [path |-> "_redirects", content |-> Redirects]>> \o sm.writes
    IN  RunEnd("ok", WriteAll(files1, w2), ds1, log3 \o WriteLog(w2),
               es, sl.enriched, sl.used_slugs, mf,
               <<Len(es), Len(chunks), sm.count>>)

\* main(): out_dir.mkdir(parents=True, exist_ok=True), then write_site.
\* argparse's type=int accepts every integer as --chunk-size.
main(files0, ds0, inp) ==
    write_site(files0, ds0 \cup {OutDir}, <<Ev("mkdir", OutDir)>>, inp)

(***************************************************************************)
(* The state outside the operation a specification is about.               *)
(***************************************************************************)
None == <<>>

NoRun == [outcome |-> "none", log |-> <<>>, result |-> <<>>, inp |-> <<>>,
          before |-> <<>>, all_ok |-> TRUE]

(***************************************************************************)
(* SpecSitemap: write_sitemap on manifests around the URL cap.             *)
(***************************************************************************)
Near == 3            \* small manifests have 0..Near entries
MaxSitemaps == 2     \* the large manifests reach this many multiples of the cap

\* A manifest of n entries whose lemmas are the numerals first, first+1, ...
\* (so the slugs are distinct), in chunks of 1000.
NumeralManifest(n, first) ==
    <<>> \o
    [i \in 1..n |-> [lemma |-> Decimal(first + i - 1),
                     slug  |-> Decimal(first + i - 1),
                     chunk |-> ChunkName((i - 1) \div 1000)]]

\* The manifest a state of SpecSitemap stands for.  A manifest of max_urls
\* entries is kept in the state by its size and first numeral; the
\* operations and the claims work on the manifest itself.
SitemapManifest == NumeralManifest(sitemap_in.n, sitemap_in.first)

\* With the root URL, m * max_urls - 1 entries make exactly m * max_urls URLs
\* and m * max_urls entries make one more.
LargeSizes == {m * max_urls - d : m \in 1..MaxSitemaps, d \in 0..1}

BaseUrls == {<<"h">>, <<"h", "/">>, <<"h", "/", "/">>, <<"h", "/", "x">>,
             <<"h", "/", "x", "/">>}

InitSitemap ==
    /\ pc = "sitemap_start"
    /\ \/ /\ sitemap_in \in [n : 0..Near, first : 0..Near]
          /\ base_url \in BaseUrls
       \/ /\ sitemap_in \in [n : LargeSizes, first : {0}]
          /\ base_url = <<"h", "/">>
    /\ sitemaps = None
    /\ manifest = None
    /\ enriched = None /\ used_slugs = None /\ rows = None /\ entries = None
    /\ fs = <<>> /\ dirs = {} /\ run = NoRun /\ nruns = 0

\* What one call of write_sitemap left: the files, the order they were
\* written in, and the count returned.
SitemapResult(r) ==
    [files |-> WriteAll(<<>>, r.writes),
     order |-> [i \in 1..Len(r.writes) |-> r.writes[i].path],
     count |-> r.count]

\* The summary of a result kept in the state: per file its format, the
\* number of its <loc> lines and the first and the last of them.
SummaryOfFile(doc) ==
    [format |-> doc.format, size |-> Len(doc.locs),
     first |-> doc.locs[1], last |-> doc.locs[Len(doc.locs)]]

SitemapSummary(res) ==
    [files |-> [p \in DOMAIN res.files |-> SummaryOfFile(res.files[p])],
     order |-> res.order,
     count |-> res.count]

DoWriteSitemap ==
    /\ pc = "sitemap_start"
    /\ sitemaps' = SitemapSummary(SitemapResult(write_sitemap(SitemapManifest, base_url)))
    /\ pc' = "sitemap_done"
    /\ UNCHANGED <<enriched, used_slugs, rows, entries, manifest, base_url,
                   sitemap_in, fs, dirs, run, nruns>>

NextSitemap == DoWriteSitemap

SpecSitemap == InitSitemap /\ [][NextSitemap]_vars

(***************************************************************************)
(* SpecSlug: the slug loop of write_site on one list of entries.           *)
(***************************************************************************)
Alphabet == {"a", "A", "2", "-", "!", " ", "U+00E9", "U+0301", "U+FF21"}

\* Lemmas of a run: empty, punctuation only, the literal word untitled,
\* the same word in different case, punctuation and accent, and a lemma
\* whose own text ends in -2.
LemmaPool ==
    {<<>>, <<"!","!","!">>, <<"u","n","t","i","t","l","e","d">>,
     <<"C","a","f","U+00E9">>, <<"c","a","f","e","!">>, <<"C","A","F","E">>,
     <<"c","a","f","e","-","2">>}

EntryOf(lemma) == [lemma |-> lemma, pos |-> "n", senses |-> <<[id |-> 1]>>]

\* fetch_entries returns one entry per distinct lemma, so the lemmas of a
\* run are pairwise different.
SlugInputs ==
    {<<EntryOf(l)>> : l \in SeqsUpTo(Alphabet, MaxLen)} \cup
    {[i \in 1..Len(ls) |-> EntryOf(ls[i])] :
        ls \in {q \in SeqsUpTo(LemmaPool, MaxEntries) : Injective(q)}}

InitSlug ==
    /\ pc = "slug_start"
    /\ entries \in SlugInputs
    /\ enriched = None /\ used_slugs = None
    /\ rows = None /\ manifest = None /\ base_url = None
    /\ sitemap_in = None /\ sitemaps = None
    /\ fs = <<>> /\ dirs = {} /\ run = NoRun /\ nruns = 0

DoAssignSlugs ==
    /\ pc = "slug_start"
    /\ LET r == AssignSlugs(entries)
       IN  /\ enriched' = r.enriched
           /\ used_slugs' = r.used_slugs
    /\ pc' = "slug_done"
    /\ UNCHANGED <<rows, entries, manifest, base_url, sitemap_in, sitemaps,
                   fs, dirs, run, nruns>>

NextSlug == DoAssignSlugs

SpecSlug == InitSlug /\ [][NextSlug]_vars

(***************************************************************************)
(* SpecAgg: fetch_entries on one sequence of rows.                         *)
(***************************************************************************)
MaxRows == 3         \* longest row sequence

RowLemmas == {<<"r","u","n">>, <<"w","a","l","k">>}

RowSet == [lemma : RowLemmas, pos : {"n", "v"}, sense_id : 1..MaxRows]

\* Sense identifiers are a key of the senses table: no two rows share one.
RowSeqs ==
    {rs \in SeqsUpTo(RowSet, MaxRows) :
        \A i, j \in 1..Len(rs) : rs[i].sense_id = rs[j].sense_id => i = j}

InitAgg ==
    /\ pc = "agg_start"
    /\ rows \in RowSeqs
    /\ entries = None
    /\ enriched = None /\ used_slugs = None
    /\ manifest = None /\ base_url = None /\ sitemap_in = None /\ sitemaps = None
    /\ fs = <<>> /\ dirs = {} /\ run = NoRun /\ nruns = 0

DoFetchEntries ==
    /\ pc = "agg_start"
    /\ entries' = fetch_entries(rows)
    /\ pc' = "agg_done"
    /\ UNCHANGED <<rows, enriched, used_slugs, manifest, base_url, sitemap_in,
                   sitemaps, fs, dirs, run, nruns>>

NextAgg == DoFetchEntries

SpecAgg == InitAgg /\ [][NextAgg]_vars

(***************************************************************************)
(* Spec: runs of main() into the same output directory.                    *)
(***************************************************************************)
MaxRuns == 2         \* runs into the same output directory
MaxChunkSize == 2    \* largest --chunk-size
MaxDbEntries == 3    \* most entries in the data source

\* The i-th lemma of the data source: "A", "A!", "A!!", ...: different
\* lemmas with the same base slug.
DbLemma(i) == [j \in 1..i |-> IF j = 1 THEN "A" ELSE "!"]

\* The rows of the query for a data source of n entries, ordered by lemma
\* then sense id; odd entries have two senses.
RECURSIVE DbRows(_, _, _)
DbRows(i, n, next_id) ==
    IF i > n THEN <<>>
    ELSE LET r(k) == [lemma |-> DbLemma(i), pos |-> "n", sense_id |-> k]
         IN  IF i % 2 = 1
             THEN <<r(next_id), r(next_id + 1)>> \o DbRows(i + 1, n, next_id + 2)
             ELSE <<r(next_id)>> \o DbRows(i + 1, n, next_id + 1)

Templates ==
    {[template_readable |-> FALSE, template |-> <<>>],
     [template_readable |-> TRUE,  template |-> <<"<head>", Marker, "</head>">>],
     [template_readable |-> TRUE,  template |-> <<"<head>", "</head>">>]}

Sources ==
    {[db_ok |-> FALSE, rows |-> <<>>]} \cup
    {[db_ok |-> TRUE, rows |-> DbRows(1, n, 1)] : n \in 0..MaxDbEntries}

Inputs ==
    {[chunk_size |-> c, template_readable |-> t.template_readable,
      template |-> t.template, db_ok |-> d.db_ok, rows |-> d.rows,
      base_url |-> <<"h", "/">>] :
        c \in (-1)..MaxChunkSize, t \in Templates, d \in Sources}

Init ==
    /\ pc = "idle"
    /\ fs = <<>> /\ dirs = {} /\ run = NoRun /\ nruns = 0
    /\ rows = None /\ entries = None /\ enriched = None /\ used_slugs = None
    /\ manifest = None /\ base_url = None /\ sitemap_in = None /\ sitemaps = None

\* The state after a run that met inp and ended as r.  all_ok records that
\* every run so far had a chunk size >= 1 and succeeded.
Exited(inp, r) ==
    /\ fs' = r.fs
    /\ dirs' = r.dirs
    /\ entries' = r.entries
    /\ enriched' = r.enriched
    /\ used_slugs' = r.used_slugs
    /\ manifest' = r.manifest
    /\ rows' = inp.rows
    /\ base_url' = inp.base_url
    /\ run' = [outcome |-> r.outcome, log |-> r.log, result |-> r.result,
               inp |-> inp, before |-> fs,
               all_ok |-> run.all_ok /\ r.outcome = "ok" /\ inp.chunk_size >= 1]

\* One run of main(), from start to exit.
Main ==
    /\ nruns < MaxRuns
    /\ \E inp \in Inputs : Exited(inp, main(fs, dirs, inp))
    /\ nruns' = nruns + 1
    /\ pc' = "exited"
    /\ UNCHANGED <<sitemap_in, sitemaps>>

Next == Main

Spec == Init /\ [][Next]_vars

(***************************************************************************)
(* Sitemap claim (SpecSitemap).                                            *)
(***************************************************************************)
\* The concatenation of the URL lists of sitemap-1.xml .. sitemap-k.xml.
RECURSIVE SubSitemapLocs(_, _, _)
SubSitemapLocs(files, j, k) ==
    IF j > k THEN <<>>
    ELSE files[SitemapName(j)].locs \o SubSitemapLocs(files, j + 1, k)

\* The URL list the claim describes: the root URL, then one URL
\* {base}/lemma/{slug} per manifest entry, in manifest order.
ExpectedUrls(mf, root, stem) ==
    <<root>> \o [i \in 1..Len(mf) |-> stem \o mf[i].slug]

\* The claim about the files and the count res that write_sitemap leaves
\* for the URL list `all` under the base URL `base`.
SitemapSplitHolds(all, base, res) ==
    /\ Len(all) <= max_urls =>
         /\ DOMAIN res.files = {"sitemap.xml"}
         /\ res.files["sitemap.xml"] = [format |-> "urlset", locs |-> all]
         /\ res.count = 1
    /\ Len(all) > max_urls =>
         /\ res.count >= 2
         /\ DOMAIN res.files =
               {"sitemap.xml"} \cup {SitemapName(j) : j \in 1..res.count}
         /\ res.order = [j \in 1..res.count |-> SitemapName(j)] \o <<"sitemap.xml">>
         /\ \A j \in 1..res.count :
               /\ res.files[SitemapName(j)].format = "urlset"
               /\ Len(res.files[SitemapName(j)].locs) \in 1..max_urls
         /\ SubSitemapLocs(res.files, 1, res.count) = all
         /\ res.files["sitemap.xml"] =
               [format |-> "sitemapindex",
                locs |-> [j \in 1..res.count |-> base \o <<"/", SitemapName(j)>>]]
    /\ Len(all) = max_urls + 1 => res.count = 2

\* C4: write_sitemap builds the root URL and one URL per manifest entry; at
\* most max_urls URLs go into a single sitemap.xml urlset and 1 is reported;
\* more are split into sitemap-1.xml, sitemap-2.xml, ... of at most max_urls
\* URLs each, which hold every URL once and in order, and sitemap.xml is the
\* index listing exactly those files; exactly max_urls URLs give a single
\* file and max_urls + 1 URLs give an index of 2 sub-sitemaps.
C4_SitemapSplit ==
    pc = "sitemap_done" =>
      /\ SitemapSplitHolds(
            ExpectedUrls(SitemapManifest,
                         RStrip(base_url, {"/"}) \o <<"/">>,
                         RStrip(base_url, {"/"}) \o <<"/","l","e","m","m","a","/">>),
            RStrip(base_url, {"/"}),
            SitemapResult(write_sitemap(SitemapManifest, base_url)))
      /\ sitemap_in.n + 1 <= max_urls =>
            /\ sitemaps.order = <<"sitemap.xml">>
            /\ sitemaps.files["sitemap.xml"].size = sitemap_in.n + 1
            /\ sitemaps.count = 1
      /\ sitemap_in.n + 1 > max_urls =>
            /\ sitemaps.files["sitemap.xml"].format = "sitemapindex"
            /\ sitemaps.files["sitemap.xml"].size = sitemaps.count
            /\ Len(sitemaps.order) = sitemaps.count + 1
            /\ \A j \in 1..sitemaps.count :
                  sitemaps.files[sitemaps.order[j]].size <= max_urls

\* C4 witness: a manifest of exactly max_urls entries (max_urls + 1 URLs)
\* was written as sitemap-1.xml with max_urls URLs, sitemap-2.xml with the
\* last URL and the index of the two.
C4_Witness ==
    /\ pc = "sitemap_done"
    /\ sitemap_in.n = max_urls
    /\ sitemaps.order = <<"sitemap-1.xml", "sitemap-2.xml", "sitemap.xml">>
    /\ sitemaps.files["sitemap-1.xml"].size = max_urls
    /\ sitemaps.files["sitemap-2.xml"].size = 1
    /\ sitemaps.files["sitemap.xml"].format = "sitemapindex"
    /\ sitemaps.count = 2

(***************************************************************************)
(* Slug claims (SpecSlug).                                                 *)
(***************************************************************************)
SlugDone == pc = "slug_done"

\* C1: the slugs one run assigns are pairwise distinct.
C1_SlugsDistinct ==
    SlugDone =>
      \A i, j \in 1..Len(enriched) : enriched[i].slug = enriched[j].slug => i = j

\* The lemma is empty or has no character of [a-z0-9] once normalized and
\* lowercased.
NoSafeChar(lemma) == Range(Lower(NFKC(lemma))) \cap SlugSafe = {}

WellFormed(slug) == slug # <<>> /\ Range(slug) \subseteq SlugSafe \cup {"-"}

\* The positions of the set I in increasing order.
RECURSIVE Ascending(_)
Ascending(I) ==
    IF I = {} THEN <<>>
    ELSE LET m == CHOOSE x \in I : \A y \in I : x <= y
         IN  <<m>> \o Ascending(I \ {m})

\* The entries at the positions `order` got untitled, then untitled-2.
FirstTwoUntitled(order) ==
    /\ Len(order) >= 1 => enriched[order[1]].slug = <<"u","n","t","i","t","l","e","d">>
    /\ Len(order) >= 2 =>
         enriched[order[2]].slug = <<"u","n","t","i","t","l","e","d","-","2">>

\* C6 as stated: every slug is non-empty and in [a-z0-9-]; a lemma without a
\* character of [a-z0-9] has base slug untitled; and the first such lemma of
\* a run gets untitled, the second untitled-2.
C6_FallbackAsStated ==
    SlugDone =>
      /\ \A i \in 1..Len(enriched) : WellFormed(enriched[i].slug)
      /\ \A i \in 1..Len(entries) :
            NoSafeChar(entries[i].lemma) =>
               slugify(entries[i].lemma) = <<"u","n","t","i","t","l","e","d">>
      /\ FirstTwoUntitled(Ascending({i \in 1..Len(entries) :
                                       NoSafeChar(entries[i].lemma)}))

\* C6 amended: every slug is non-empty and in [a-z0-9-]; a lemma without a
\* character of [a-z0-9] has base slug untitled; and of the lemmas of a run
\* whose base slug is untitled (by the fallback, or because the lemma itself
\* normalizes to the word untitled) the first gets untitled and the second
\* untitled-2.
C6_FallbackAmended ==
    SlugDone =>
      /\ \A i \in 1..Len(enriched) : WellFormed(enriched[i].slug)
      /\ \A i \in 1..Len(entries) :
            NoSafeChar(entries[i].lemma) =>
               slugify(entries[i].lemma) = <<"u","n","t","i","t","l","e","d">>
      /\ FirstTwoUntitled(Ascending({i \in 1..Len(entries) :
            slugify(entries[i].lemma) = <<"u","n","t","i","t","l","e","d">>}))

\* C6 witness: the word untitled came first and an empty or punctuation-only
\* lemma after it got untitled-2.
C6_Witness ==
    /\ SlugDone
    /\ Len(entries) >= 2
    /\ entries[1].lemma = <<"u","n","t","i","t","l","e","d">>
    /\ NoSafeChar(entries[2].lemma)
    /\ enriched[2].slug = <<"u","n","t","i","t","l","e","d","-","2">>

\* How many of the first i entries have the base slug of entry i.
Occurrence(i) ==
    Cardinality({j \in 1..i : slugify(entries[j].lemma) = slugify(entries[i].lemma)})

\* C7: the first entry with base slug b gets b, the k-th (k >= 2) gets b-k,
\* in encounter order; the counter of b is its running occurrence count,
\* never reset and independent of the other bases.
C7_DedupNumbering ==
    SlugDone =>
      /\ \A i \in 1..Len(entries) :
            LET b == slugify(entries[i].lemma)
                k == Occurrence(i)
            IN  enriched[i].slug = IF k = 1 THEN b ELSE b \o <<"-">> \o Decimal(k)
      /\ DOMAIN used_slugs = {slugify(entries[i].lemma) : i \in 1..Len(entries)}
      /\ \A b \in DOMAIN used_slugs :
            used_slugs[b] =
              Cardinality({j \in 1..Len(entries) : slugify(entries[j].lemma) = b})

\* C7 witness: three entries of one base got untitled, untitled-2 and
\* untitled-3.
C7_Witness ==
    /\ SlugDone
    /\ Len(enriched) = 3
    /\ enriched[1].slug = <<"u","n","t","i","t","l","e","d">>
    /\ enriched[2].slug = <<"u","n","t","i","t","l","e","d","-","2">>
    /\ enriched[3].slug = <<"u","n","t","i","t","l","e","d","-","3">>

\* C8: the lemmas "Café", "cafe!", "CAFE" in that order get the slugs cafe,
\* cafe-2, cafe-3.
C8_CafeSequence ==
    (/\ SlugDone
     /\ Len(entries) = 3
     /\ entries[1].lemma = <<"C","a","f","U+00E9">>
     /\ entries[2].lemma = <<"c","a","f","e","!">>
     /\ entries[3].lemma = <<"C","A","F","E">>)
    => /\ enriched[1].slug = <<"c","a","f","e">>
       /\ enriched[2].slug = <<"c","a","f","e","-","2">>
       /\ enriched[3].slug = <<"c","a","f","e","-","3">>

(***************************************************************************)
(* Aggregation claim (SpecAgg).                                            *)
(***************************************************************************)
\* The index of the first row with this lemma.
FirstRow(lemma) ==
    CHOOSE i \in 1..Len(rows) :
      /\ rows[i].lemma = lemma
      /\ \A j \in 1..(i - 1) : rows[j].lemma # lemma

\* The senses of the rows with this lemma, in row order.
RECURSIVE SensesOf(_, _)
SensesOf(lemma, i) ==
    IF i > Len(rows) THEN <<>>
    ELSE (IF rows[i].lemma = lemma THEN <<[id |-> rows[i].sense_id]>> ELSE <<>>)
         \o SensesOf(lemma, i + 1)

\* C9: fetch_entries returns exactly one entry per distinct lemma, in order
\* of first occurrence, with the entry-level fields of the first row of the
\* lemma and the senses of all its rows in row order (never empty), also
\* when the rows of a lemma are not adjacent.
C9_Aggregation ==
    pc = "agg_done" =>
      /\ {entries[i].lemma : i \in 1..Len(entries)} =
            {rows[i].lemma : i \in 1..Len(rows)}
      /\ \A i, j \in 1..Len(entries) :
            /\ entries[i].lemma = entries[j].lemma => i = j
            /\ i < j => FirstRow(entries[i].lemma) < FirstRow(entries[j].lemma)
      /\ \A i \in 1..Len(entries) :
            /\ entries[i].pos = rows[FirstRow(entries[i].lemma)].pos
            /\ entries[i].senses = SensesOf(entries[i].lemma, 1)
            /\ entries[i].senses # <<>>

\* C9 witness: the rows of one lemma were split around a row of another
\* lemma and differ in an entry-level field, and two entries came out.
C9_Witness ==
    /\ pc = "agg_done"
    /\ Len(rows) = 3
    /\ rows[1].lemma = rows[3].lemma
    /\ rows[1].lemma # rows[2].lemma
    /\ rows[1].pos # rows[3].pos
    /\ Len(entries) = 2
    /\ Len(entries[1].senses) = 2

(***************************************************************************)
(* Claims about runs of main() (Spec).                                     *)
(***************************************************************************)
\* The paths the last run wrote, in order.
RECURSIVE WrittenFrom(_)
WrittenFrom(log) ==
    IF log = <<>> THEN <<>>
    ELSE (IF Head(log).op = "write" THEN <<Head(log).path>> ELSE <<>>)
         \o WrittenFrom(Tail(log))

Written == WrittenFrom(run.log)

NonChunkPaths == {"manifest.json", "index.html", "_redirects", "sitemap.xml"}

\* The chunk files the last run wrote, in order.
RECURSIVE Without(_, _)
Without(paths, S) ==
    IF paths = <<>> THEN <<>>
    ELSE (IF Head(paths) \in S THEN <<>> ELSE <<Head(paths)>>) \o Without(Tail(paths), S)

ChunkPathsWritten == Without(Written, NonChunkPaths)

\* The bodies of the files at `paths`, concatenated in order.
RECURSIVE Concatenated(_)
Concatenated(paths) ==
    IF paths = <<>> THEN <<>>
    ELSE fs[Head(paths)].body \o Concatenated(Tail(paths))

\* The run got as far as writing the chunk files and the manifest.
ChunksWritten == run.outcome \in {"ok", "template_format"}

\* C2: for a chunk size >= 1 the chunk files are consecutive windows of at
\* most chunk_size entries named chunk-0000, chunk-0001, ... in order; their
\* concatenation in that order is the entry list; the manifest has one
\* record per entry in entry order; the chunk values of the manifest are
\* exactly the chunk files written; and each record names the file that
\* holds the entry with its lemma and slug.
C2_ChunkManifest ==
    (ChunksWritten /\ run.inp.chunk_size >= 1) =>
      LET cp == ChunkPathsWritten IN
      /\ \A k \in 1..Len(cp) :
            /\ cp[k] = "data/chunk-000" \o ToString(k - 1) \o ".json"
            /\ Len(fs[cp[k]].body) \in 1..run.inp.chunk_size
      /\ Concatenated(cp) = enriched
      /\ Len(enriched) = Len(entries)
      /\ \A i \in 1..Len(entries) : enriched[i].lemma = entries[i].lemma
      /\ Len(manifest) = Len(entries)
      /\ fs["manifest.json"] = JsonDoc(manifest)
      /\ \A i \in 1..Len(manifest) :
            /\ manifest[i].lemma = entries[i].lemma
            /\ manifest[i].slug = enriched[i].slug
            /\ "data/" \o manifest[i].chunk \in Range(cp)
            /\ \E e \in Range(fs["data/" \o manifest[i].chunk].body) :
                  e.lemma = manifest[i].lemma /\ e.slug = manifest[i].slug
      /\ Range(cp) = {"data/" \o manifest[i].chunk : i \in 1..Len(manifest)}

\* C2 witness: three entries in chunks of two: a full chunk-0000 and a
\* chunk-0001 with the last entry.
C2_Witness ==
    /\ run.outcome = "ok"
    /\ run.inp.chunk_size = 2
    /\ Len(entries) = 3
    /\ ChunkPathsWritten = <<"data/chunk-0000.json", "data/chunk-0001.json">>
    /\ Len(fs["data/chunk-0001.json"].body) = 1

\* C3: a run with a chunk size of 0 or less fails, and fails before any
\* I/O: no directory is created, no template read, no data source queried
\* and no file written.
C3_NonPositiveRejected ==
    (run.outcome # "none" /\ run.inp.chunk_size <= 0) =>
      /\ run.outcome # "ok"
      /\ run.log = <<>>
      /\ fs = run.before

\* C5: after successful runs only (each with a chunk size >= 1), the files
\* of the output directory are exactly the files the last run wrote:
\* nothing an earlier run wrote survives beside them.
C5_OnlyLastRun ==
    (run.outcome = "ok" /\ run.all_ok) => DOMAIN fs = Range(Written)

\* C10: a readable template without the marker always fails the run; when
\* the failure is the template-format error, all chunk files and
\* manifest.json of the run are on disk and the manifest was the last write,
\* so no index.html, _redirects or sitemap was written; an unreadable
\* template fails the run before any write.
C10_TemplateFailureOrder ==
    run.outcome # "none" =>
      /\ (run.inp.template_readable /\ Marker \notin Range(run.inp.template))
            => run.outcome \notin {"ok", "none"}
      /\ run.outcome = "template_format" =>
            /\ run.inp.template_readable
            /\ Marker \notin Range(run.inp.template)
            /\ Written # <<>>
            /\ Written[Len(Written)] = "manifest.json"
            /\ fs["manifest.json"] = JsonDoc(manifest)
            /\ run.inp.chunk_size >= 1 => Len(manifest) = Len(entries)
            /\ \A i \in 1..Len(manifest) :
                  /\ "data/" \o manifest[i].chunk \in Range(Written)
                  /\ \E e \in Range(fs["data/" \o manifest[i].chunk].body) :
                        e.lemma = manifest[i].lemma
            /\ Range(Written) \cap {"index.html", "_redirects", "sitemap.xml"} = {}
            /\ \A p \in {"index.html", "_redirects", "sitemap.xml"} :
                  /\ p \in DOMAIN fs => p \in DOMAIN run.before
                  /\ p \in DOMAIN run.before => fs[p] = run.before[p]
      /\ ~run.inp.template_readable =>
            /\ run.outcome = "template_unreadable"
            /\ Written = <<>>
            /\ fs = run.before

\* C10 witness: a run over a template without the marker ended with two
\* chunk files and the manifest written and no landing page on disk.
C10_Witness ==
    /\ run.outcome = "template_format"
    /\ Written = <<"data/chunk-0000.json", "data/chunk-0001.json", "manifest.json">>
    /\ "index.html" \notin DOMAIN fs

====
